---- MODULE Spec2Model ----
(***************************************************************************)
(* A model of the Service event loop of src/service.rs: the builder        *)
(* (listen, dial), Stream::poll with its four phases (client_poll,         *)
(* listen_poll, the session_events drain, the service_tasks drain), the    *)
(* handshake driver, session_open / session_close and the protocol handle *)
(* registries.  The TCP layer, the secio handshake, the Session future and *)
(* the user's handles are the environment.                                 *)
(***************************************************************************)
EXTENDS Integers, Sequences, FiniteSets, TLC

\* ------------------------------------------------------------------ bounds
\* sockets (connect results and accepts) the environment produces in a run
MaxConn == 2
\* calls of the builder Service::dial before the service is run
MaxDial == 2
\* calls of Service::listen before the service is run
MaxListen == 1
\* Dial tasks the handles submit in a run
MaxDialTask == 1
\* Disconnect tasks the handles submit in a run
MaxDisconnect == 1
\* protocol streams the Sessions open or close in a run
MaxProtocol == 2
\* messages a channel holds at most; mpsc::channel(256) in the source, scaled
\* down
Capacity == 2
\* ProtocolMessage events the Sessions report in a run
MaxMessage == 1
\* ProtocolMessage tasks the handles submit in a run
MaxMessageTask == 1
\* tasks the handles submit in a burst
MaxBurst == 3
\* protocol streams the Sessions open or close in a run that looks at the
\* protocol handles
MaxStream == 3
\* sockets the environment produces in a run that looks at the key map
MaxKeyed == 3
\* width of usize in the model (64 on the usual targets)
UsizeBits == 8

\* remote socket addresses the service dials
Addrs == {"a1", "a2"}
\* local addresses the service listens on
ListenAddrs == {"l1"}
\* addresses of the peers that connect to a listener
Peers == {"p1"}
NoAddr == "-"
\* remote public keys
Keys == {"k1", "k2"}
\* the session ids a run can hand out
SessionIds == 1..MaxKeyed
\* the session ids the handles name in their tasks
TaskIds == 1..MaxConn
UsizeMax == 2^UsizeBits - 1
\* Option::None for a public key
NoKey == "None"

\* ------------------------------------------------------------------- state
VARIABLES
    forever,                \* the forever argument of Service::new
    key_pair,               \* TRUE iff Service::new got Some(key pair)
    protocol_configs,       \* the descriptors: id, has handle(), has session_handle()
    sessions,               \* SessionId -> the Session that owns the receiver: its
                            \* socket and the public key of its SessionMeta
    listens,                \* addresses of the listeners, in list order
    dial,                   \* addresses of the pending connect futures, in list order
    task_count,
    next_session,
    remote_pubkeys,         \* SessionId -> PublicKey
    proto_handles,          \* protocol ids with an installed global handle
    proto_session_handles,  \* SessionId -> (ProtocolId -> TRUE for Some(handle))
    session_events,         \* content of the session event channel
    service_tasks,          \* content of the service task channel
    ctx_listens,            \* service_context.listens
    pc,                     \* position of the service: build, the poll phases, done
    result,                 \* what the last call of poll returned
    panicked,               \* the service thread panicked
    handshakes,             \* spawned handshake tasks that have not resolved
    spawned,                \* Session futures that were spawned and still run
    shut,                   \* sockets on which shutdown() was called
    next_conn,              \* sockets created so far
    open_log,               \* SessionOpen events given to handle_event, in order
    close_count,            \* per id: SessionClose events given to handle_event
    last,                   \* the last handler the service ran, with its input
    limits,                 \* what the environment does at most in this run
    used,                   \* what it has done so far
    calls,                  \* what the last step of the loop called, in call order
    ginit,                  \* per protocol: init() calls on its global handle
    gopen                   \* <<id, proto>>: the global handle was told connected,
                            \* and not disconnected since

vars == <<forever, key_pair, sessions, listens, dial, task_count,
          next_session, remote_pubkeys, proto_handles, proto_session_handles,
          session_events, service_tasks, ctx_listens, pc, result, panicked,
          handshakes, spawned, shut, next_conn, open_log, close_count, last,
          protocol_configs, limits, used, calls, ginit, gopen>>

config == <<forever, key_pair, protocol_configs, limits>>

\* ----------------------------------------------------------------- helpers
Put(f, k, v) == [x \in (DOMAIN f) \cup {k} |-> IF x = k THEN v ELSE f[x]]

Remove(f, k) == [x \in (DOMAIN f) \ {k} |-> f[x]]

EmptyMap == [x \in {} |-> 0]

Range(f) == {f[x] : x \in DOMAIN f}

\* TRUE iff a descriptor with this id gives a handle of the asked kind
get_proto_handle(session, proto_id) ==
    \E proto \in protocol_configs :
        /\ proto.id = proto_id
        /\ IF session THEN proto.session_handle ELSE proto.handle

ProtocolIds == {proto.id : proto \in protocol_configs}

Event(type, id, proto_id, conn, public_key, address, ty) ==
    [type |-> type, id |-> id, proto_id |-> proto_id, conn |-> conn,
     public_key |-> public_key, address |-> address, ty |-> ty]

\* no id list: Option::None for the ids of a ProtocolMessage task
NoIds == <<0>>

\* seq: the task is the seq-th one submitted; phase: where the loop was
\* when it was submitted
Task(type, id, proto_id, address, ids) ==
    [type |-> type, id |-> id, proto_id |-> proto_id, address |-> address,
     ids |-> ids, seq |-> 0, phase |-> "-"]

Last(op, id, address, flag) ==
    [op |-> op, id |-> id, address |-> address, flag |-> flag, phase |-> "-"]

\* a call the loop makes: who is "service" (handle_event), "error"
\* (handle_error), "global" or "session" (a protocol handle) or "sender"
\* (try_send on the command channel of session id); fn is the method or
\* the event
Call(who, fn, id, proto_id) ==
    [who |-> who, fn |-> fn, id |-> id, proto_id |-> proto_id,
     ty |-> "-", address |-> NoAddr, public_key |-> NoKey]

\* handle_event or handle_error with a ServiceEvent
ServiceCall(who, fn, id, ty, address, public_key) ==
    [who |-> who, fn |-> fn, id |-> id, proto_id |-> 0,
     ty |-> ty, address |-> address, public_key |-> public_key]

\* the fields the service's methods read and write, as one record;
\* overflow_checks: the build panics on a usize underflow (else it wraps);
\* proto_walk, session_walk: the order of the HashMap walks of the step
Cur(overflow_checks) ==
    [overflow_checks |-> overflow_checks, proto_walk |-> <<>>, session_walk |-> <<>>,
     sessions |-> sessions, listens |-> listens, dial |-> dial,
     task_count |-> task_count, next_session |-> next_session,
     remote_pubkeys |-> remote_pubkeys, proto_handles |-> proto_handles,
     proto_session_handles |-> proto_session_handles, ctx_listens |-> ctx_listens,
     panicked |-> panicked, handshakes |-> handshakes, spawned |-> spawned,
     shut |-> shut, next_conn |-> next_conn, open_log |-> open_log,
     close_count |-> close_count, ginit |-> ginit, gopen |-> gopen,
     calls |-> <<>>]

Install(s) ==
    /\ sessions' = s.sessions
    /\ listens' = s.listens
    /\ dial' = s.dial
    /\ task_count' = s.task_count
    /\ next_session' = s.next_session
    /\ remote_pubkeys' = s.remote_pubkeys
    /\ proto_handles' = s.proto_handles
    /\ proto_session_handles' = s.proto_session_handles
    /\ ctx_listens' = s.ctx_listens
    /\ panicked' = s.panicked
    /\ handshakes' = s.handshakes
    /\ spawned' = s.spawned
    /\ shut' = s.shut
    /\ next_conn' = s.next_conn
    /\ open_log' = s.open_log
    /\ close_count' = s.close_count
    /\ ginit' = s.ginit
    /\ gopen' = s.gopen
    /\ calls' = s.calls

svars == <<sessions, listens, dial, task_count, next_session, remote_pubkeys,
           proto_handles, proto_session_handles, ctx_listens, panicked,
           handshakes, spawned, shut, next_conn, open_log, close_count,
           ginit, gopen>>

\* ------------------------------------------------------ the service methods
\* self.task_count -= 1 on a usize: a panic or a wrap when the count is 0
dec_task_count(s) ==
    IF s.task_count = 0
    THEN IF s.overflow_checks
         THEN [s EXCEPT !.panicked = TRUE]
         ELSE [s EXCEPT !.task_count = UsizeMax]
    ELSE [s EXCEPT !.task_count = @ - 1]

\* handle is the socket, public_key is NoKey for None
session_open(s, handle, public_key, address, ty) ==
    LET known == \E i \in DOMAIN s.remote_pubkeys : s.remote_pubkeys[i] = public_key
        s1 == IF public_key # NoKey
              THEN IF known
                   THEN [s EXCEPT !.shut = @ \cup {handle}]
                   ELSE [s EXCEPT !.next_session = @ + 1,
                                  !.remote_pubkeys = Put(@, s.next_session + 1, public_key)]
              ELSE [s EXCEPT !.next_session = @ + 1]
        id == s1.next_session
    IN  [s1 EXCEPT
            !.spawned = @ \cup {[conn |-> handle, id |-> id, ty |-> ty,
                                 protos |-> {}, cmd_close |-> FALSE]},
            !.sessions = Put(@, id, [conn |-> handle, public_key |-> public_key]),
            !.open_log = Append(@, [id |-> id, ty |-> "Server"]),
            !.calls = Append(@, ServiceCall("service", "SessionOpen", id, "Server",
                                            address, public_key))]

handshake(s, socket, address, ty) ==
    IF key_pair
    THEN [s EXCEPT !.handshakes = @ \cup {[conn |-> socket, address |-> address, ty |-> ty]}]
    ELSE LET s1 == session_open(s, socket, NoKey, address, ty)
         IN  IF ty = "Client" THEN dec_task_count(s1) ELSE s1

\* session_close that leaves the per-session handles of id in place
session_close_keeps_handles(s, id) ==
    LET s1 == [s EXCEPT !.remote_pubkeys = Remove(@, id)]
        s2 == IF id \in DOMAIN s1.sessions
              THEN [s1 EXCEPT !.sessions = Remove(@, id)]
              ELSE s1
    IN  [s2 EXCEPT !.close_count[id] = @ + 1]

\* the orders in which a walk of a HashMap may visit the keys S; the order
\* is not specified, the step that walks takes any of them
Walks(S) ==
    {w \in [1..Cardinality(S) -> S] : \A i, j \in 1..Cardinality(S) : i # j => w[i] # w[j]}

\* the keys of the map m in the order of the walk
Walk(walk, m) == SelectSeq(walk, LAMBDA k : k \in DOMAIN m)

\* the calls of `fn` with `who`, one for each proto id of the list
RECURSIVE CallEach(_, _, _, _)
CallEach(who, fn, id, proto_ids) ==
    IF proto_ids = <<>>
    THEN <<>>
    ELSE <<Call(who, fn, id, Head(proto_ids))>> \o CallEach(who, fn, id, Tail(proto_ids))

\* the calls of `fn` with `who`, one for each session id of the list
RECURSIVE CallSessions(_, _, _, _)
CallSessions(who, fn, ids, proto_id) ==
    IF ids = <<>>
    THEN <<>>
    ELSE <<Call(who, fn, Head(ids), proto_id)>> \o CallSessions(who, fn, Tail(ids), proto_id)

\* session_close that tells the global handles before the per-session ones
session_close_global_first(s, id) ==
    LET s1 == [s EXCEPT !.remote_pubkeys = Remove(@, id)]
        s2 == IF id \in DOMAIN s1.sessions
              THEN [s1 EXCEPT
                      !.sessions = Remove(@, id),
                      !.spawned = {IF x.conn = s1.sessions[id].conn
                                   THEN [x EXCEPT !.cmd_close = TRUE] ELSE x : x \in @},
                      !.calls = Append(@, Call("sender", "SessionClose", id, 0))]
              ELSE s1
        s3 == [s2 EXCEPT !.close_count[id] = @ + 1,
                         !.calls = Append(@, Call("service", "SessionClose", id, 0))]
        handles == IF id \in DOMAIN s3.proto_session_handles
                   THEN s3.proto_session_handles[id] ELSE EmptyMap
        close_proto_ids == Walk(s.proto_walk, handles)
        with_handle == SelectSeq(close_proto_ids, LAMBDA p : handles[p])
        with_global == SelectSeq(close_proto_ids, LAMBDA p : p \in s3.proto_handles)
    IN  [s3 EXCEPT
            !.proto_session_handles = Remove(@, id),
            !.calls = @ \o CallEach("global", "disconnected", id, with_global)
                        \o CallEach("session", "disconnected", id, with_handle),
            !.gopen = @ \ {<<id, p>> : p \in Range(with_global)}]

session_close(s, id) ==
    LET s1 == [s EXCEPT !.remote_pubkeys = Remove(@, id)]
        s2 == IF id \in DOMAIN s1.sessions
              THEN [s1 EXCEPT
                      !.sessions = Remove(@, id),
                      !.spawned = {IF x.conn = s1.sessions[id].conn
                                   THEN [x EXCEPT !.cmd_close = TRUE] ELSE x : x \in @},
                      !.calls = Append(@, Call("sender", "SessionClose", id, 0))]
              ELSE s1
        s3 == [s2 EXCEPT !.close_count[id] = @ + 1,
                         !.calls = Append(@, Call("service", "SessionClose", id, 0))]
        handles == IF id \in DOMAIN s3.proto_session_handles
                   THEN s3.proto_session_handles[id] ELSE EmptyMap
        close_proto_ids == Walk(s.proto_walk, handles)
        with_handle == SelectSeq(close_proto_ids, LAMBDA p : handles[p])
        with_global == SelectSeq(close_proto_ids, LAMBDA p : p \in s3.proto_handles)
    IN  [s3 EXCEPT
            !.proto_session_handles = Remove(@, id),
            !.calls = @ \o CallEach("session", "disconnected", id, with_handle)
                        \o CallEach("global", "disconnected", id, with_global),
            !.gopen = @ \ {<<id, p>> : p \in Range(with_global)}]

\* protocol_open that builds and installs a new global handle on every open
protocol_open_reinstalls(s, id, proto_id) ==
    LET s1 == IF get_proto_handle(FALSE, proto_id)
              THEN [s EXCEPT
                      !.proto_handles = @ \cup {proto_id},
                      !.ginit[proto_id] = @ + 1,
                      !.gopen = @ \cup {<<id, proto_id>>},
                      !.calls = @ \o <<Call("global", "init", 0, proto_id),
                                       Call("global", "connected", id, proto_id)>>]
              ELSE s
        session_level_handle == get_proto_handle(TRUE, proto_id)
        s2 == IF session_level_handle
              THEN [s1 EXCEPT !.calls = @ \o <<Call("session", "init", id, proto_id),
                                               Call("session", "connected", id, proto_id)>>]
              ELSE s1
        inner == IF id \in DOMAIN s2.proto_session_handles
                 THEN s2.proto_session_handles[id] ELSE EmptyMap
    IN  [s2 EXCEPT !.proto_session_handles =
                      Put(@, id, Put(inner, proto_id, session_level_handle))]

protocol_open(s, id, proto_id) ==
    LET s1 == IF proto_id \in s.proto_handles
              THEN [s EXCEPT
                      !.gopen = @ \cup {<<id, proto_id>>},
                      !.calls = Append(@, Call("global", "connected", id, proto_id))]
              ELSE IF get_proto_handle(FALSE, proto_id)
                   THEN [s EXCEPT
                           !.proto_handles = @ \cup {proto_id},
                           !.ginit[proto_id] = @ + 1,
                           !.gopen = @ \cup {<<id, proto_id>>},
                           !.calls = @ \o <<Call("global", "init", 0, proto_id),
                                            Call("global", "connected", id, proto_id)>>]
                   ELSE s
        session_level_handle == get_proto_handle(TRUE, proto_id)
        s2 == IF session_level_handle
              THEN [s1 EXCEPT !.calls = @ \o <<Call("session", "init", id, proto_id),
                                               Call("session", "connected", id, proto_id)>>]
              ELSE s1
        inner == IF id \in DOMAIN s2.proto_session_handles
                 THEN s2.proto_session_handles[id] ELSE EmptyMap
    IN  [s2 EXCEPT !.proto_session_handles =
                      Put(@, id, Put(inner, proto_id, session_level_handle))]

\* TRUE iff the handle map holds Some(handle) at (id, proto_id)
SessionHandle(s, id, proto_id) ==
    /\ id \in DOMAIN s.proto_session_handles
    /\ proto_id \in DOMAIN s.proto_session_handles[id]
    /\ s.proto_session_handles[id][proto_id]

\* protocol_message that calls the per-session handle before the global one
protocol_message_session_first(s, id, proto_id) ==
    LET s1 == IF SessionHandle(s, id, proto_id)
              THEN [s EXCEPT !.calls = Append(@, Call("session", "received", id, proto_id))]
              ELSE s
    IN  IF proto_id \in s1.proto_handles
        THEN [s1 EXCEPT !.calls = Append(@, Call("global", "received", id, proto_id))]
        ELSE s1

protocol_message(s, id, proto_id) ==
    LET s1 == IF proto_id \in s.proto_handles
              THEN [s EXCEPT !.calls = Append(@, Call("global", "received", id, proto_id))]
              ELSE s
    IN  IF SessionHandle(s1, id, proto_id)
        THEN [s1 EXCEPT !.calls = Append(@, Call("session", "received", id, proto_id))]
        ELSE s1

protocol_close(s, id, proto_id) ==
    LET s1 == IF proto_id \in s.proto_handles
              THEN [s EXCEPT
                      !.gopen = @ \ {<<id, proto_id>>},
                      !.calls = Append(@, Call("global", "disconnected", id, proto_id))]
              ELSE s
    IN  IF id \in DOMAIN s1.proto_session_handles
        THEN LET s2 == [s1 EXCEPT !.proto_session_handles[id] = Remove(@, proto_id)]
             IN  IF SessionHandle(s1, id, proto_id)
                 THEN [s2 EXCEPT !.calls =
                          Append(@, Call("session", "disconnected", id, proto_id))]
                 ELSE s2
        ELSE s1

Contains(ids, id) == \E i \in 1..Len(ids) : ids[i] = id

broadcast(s, proto_id) ==
    [s EXCEPT !.calls = @ \o CallSessions("sender", "ProtocolMessage",
                                       Walk(s.session_walk, s.sessions), proto_id)]

\* filter_broadcast that walks the id list and sends to each listed id it
\* finds in the registry
filter_broadcast_by_ids(s, ids, proto_id) ==
    IF ids = NoIds
    THEN broadcast(s, proto_id)
    ELSE [s EXCEPT !.calls = @ \o CallSessions("sender", "ProtocolMessage",
                                  SelectSeq(ids, LAMBDA id : id \in DOMAIN s.sessions),
                                  proto_id)]

filter_broadcast(s, ids, proto_id) ==
    IF ids = NoIds
    THEN broadcast(s, proto_id)
    ELSE [s EXCEPT !.calls = @ \o CallSessions("sender", "ProtocolMessage",
                                  SelectSeq(Walk(s.session_walk, s.sessions),
                                            LAMBDA id : Contains(ids, id)),
                                  proto_id)]

RECURSIVE client_poll_loop(_, _, _)
client_poll_loop(s, pending, outs) ==
    IF pending = <<>> \/ s.panicked
    THEN s
    ELSE LET address == Head(pending)
             s1 == CASE Head(outs) = "Ready" ->
                          handshake([s EXCEPT !.next_conn = @ + 1],
                                    s.next_conn + 1, address, "Client")
                    [] Head(outs) = "NotReady" ->
                          [s EXCEPT !.dial = Append(@, address)]
                    [] OTHER ->
                          LET d == dec_task_count(s)
                          IN  IF d.panicked
                              THEN d
                              ELSE [d EXCEPT !.calls = Append(@,
                                      ServiceCall("error", "DialerError", 0, "-",
                                                  address, NoKey))]
         IN  client_poll_loop(s1, Tail(pending), Tail(outs))

\* outs: what each connect future answers to poll(), in list order
client_poll(s, outs) == client_poll_loop([s EXCEPT !.dial = <<>>], s.dial, outs)

\* listen_poll that does not push a listener back after an error
RECURSIVE listen_poll_loop_drops_failed(_, _, _)
listen_poll_loop_drops_failed(s, pending, outs) ==
    IF pending = <<>> \/ s.panicked
    THEN s
    ELSE LET address == Head(pending)
             o == Head(outs)
             s1 == CASE o.kind = "Some" ->
                          LET h == handshake([s EXCEPT !.next_conn = @ + 1],
                                             s.next_conn + 1, o.peer, "Server")
                          IN  [h EXCEPT !.listens = Append(@, address)]
                    [] o.kind = "None" -> s
                    [] o.kind = "NotReady" -> [s EXCEPT !.listens = Append(@, address)]
                    [] OTHER ->
                          [s EXCEPT
                              !.calls = Append(@,
                                  ServiceCall("error", "ListenError", 0, "-", address, NoKey))]
         IN  listen_poll_loop_drops_failed(s1, Tail(pending), Tail(outs))

RECURSIVE listen_poll_loop(_, _, _)
listen_poll_loop(s, pending, outs) ==
    IF pending = <<>> \/ s.panicked
    THEN s
    ELSE LET address == Head(pending)
             o == Head(outs)
             s1 == CASE o.kind = "Some" ->
                          LET h == handshake([s EXCEPT !.next_conn = @ + 1],
                                             s.next_conn + 1, o.peer, "Server")
                          IN  [h EXCEPT !.listens = Append(@, address)]
                    [] o.kind = "None" -> s
                    [] o.kind = "NotReady" -> [s EXCEPT !.listens = Append(@, address)]
                    [] OTHER ->
                          [s EXCEPT
                              !.listens = Append(@, address),
                              !.calls = Append(@,
                                  ServiceCall("error", "ListenError", 0, "-", address, NoKey))]
         IN  listen_poll_loop(s1, Tail(pending), Tail(outs))

listen_poll(s, outs) ==
    LET s1 == listen_poll_loop([s EXCEPT !.listens = <<>>], s.listens, outs)
    IN  IF s1.panicked THEN s1 ELSE [s1 EXCEPT !.ctx_listens = s1.listens]

\* the checks of poll without the look at the session registry
Terminated_ignores_sessions(s) == s.listens = <<>> /\ s.task_count = 0

\* the condition of both checks of poll
Terminated(s) == s.listens = <<>> /\ s.task_count = 0 /\ DOMAIN s.sessions = {}

\* the descriptors of a service with one protocol, and of one with a second
\* protocol that has a global handle only
OneProtocol == {[id |-> 1, handle |-> TRUE, session_handle |-> TRUE]}

TwoProtocols == OneProtocol \cup {[id |-> 2, handle |-> TRUE, session_handle |-> FALSE]}

\* what the environment may do in a run: a run in which the service dials,
\* and a run in which sessions open protocols and are disconnected
Scenarios ==
    {[forever |-> BOOLEAN, key_pair |-> BOOLEAN, dials |-> MaxDial, listens |-> MaxListen,
      conns |-> MaxConn, dial_tasks |-> MaxDialTask, disconnects |-> 0, protocols |-> 0,
      messages |-> 0, message_tasks |-> 0, capacity |-> 1, protocol_configs |-> OneProtocol,
      callbacks |-> FALSE],
     [forever |-> {FALSE}, key_pair |-> BOOLEAN, dials |-> 1, listens |-> MaxListen,
      conns |-> MaxConn, dial_tasks |-> 0, disconnects |-> MaxDisconnect,
      protocols |-> MaxProtocol, messages |-> 0, message_tasks |-> 0, capacity |-> 1, protocol_configs |-> OneProtocol,
      callbacks |-> FALSE],
     \* a run in which the handles submit a burst of Dial tasks
     [forever |-> {TRUE}, key_pair |-> BOOLEAN, dials |-> 0, listens |-> 0,
      conns |-> 1, dial_tasks |-> MaxBurst, disconnects |-> 0, protocols |-> 0,
      messages |-> 0, message_tasks |-> 0, capacity |-> Capacity, protocol_configs |-> OneProtocol,
      callbacks |-> FALSE]}

\* a run in which a session opens and closes a protocol and is disconnected,
\* a run in which two sessions do and the handles send messages to them, and
\* a run in which three peers connect to the listener and are identified
HandleScenarios ==
    {[forever |-> {FALSE}, key_pair |-> BOOLEAN, dials |-> 1, listens |-> MaxListen,
      conns |-> 1, dial_tasks |-> 0, disconnects |-> MaxDisconnect,
      protocols |-> MaxStream, messages |-> MaxMessage, message_tasks |-> 0,
      capacity |-> 1, protocol_configs |-> OneProtocol,
      callbacks |-> FALSE],
     [forever |-> {FALSE}, key_pair |-> {FALSE}, dials |-> 0, listens |-> MaxListen,
      conns |-> MaxConn, dial_tasks |-> 0, disconnects |-> 0,
      protocols |-> MaxStream, messages |-> MaxMessage,
      message_tasks |-> MaxMessageTask, capacity |-> 1, protocol_configs |-> TwoProtocols,
      callbacks |-> FALSE],
     [forever |-> {FALSE}, key_pair |-> {TRUE}, dials |-> 0, listens |-> MaxListen,
      conns |-> MaxKeyed, dial_tasks |-> 0, disconnects |-> 0,
      protocols |-> 0, messages |-> 0, message_tasks |-> 0,
      capacity |-> 1, protocol_configs |-> OneProtocol,
      callbacks |-> FALSE],
     \* a run in which the handles submit tasks from within their callbacks
     [forever |-> {FALSE}, key_pair |-> {TRUE}, dials |-> 0, listens |-> MaxListen,
      conns |-> 1, dial_tasks |-> MaxDialTask, disconnects |-> MaxDisconnect,
      protocols |-> 1, messages |-> 0, message_tasks |-> 0,
      capacity |-> Capacity, protocol_configs |-> OneProtocol,
      callbacks |-> TRUE]}

\* -------------------------------------------------------------------- Init
Start ==
    /\ forever \in limits.forever
    /\ key_pair \in limits.key_pair
    /\ protocol_configs = limits.protocol_configs
    /\ used = [listens |-> 0, dial_tasks |-> 0, disconnects |-> 0, protocols |-> 0,
               messages |-> 0, message_tasks |-> 0]
    /\ sessions = EmptyMap
    /\ listens = <<>>
    /\ dial = <<>>
    /\ task_count = IF forever THEN 1 ELSE 0
    /\ next_session = 0
    /\ remote_pubkeys = EmptyMap
    /\ proto_handles = {}
    /\ proto_session_handles = EmptyMap
    /\ session_events = <<>>
    /\ service_tasks = <<>>
    /\ ctx_listens = <<>>
    /\ pc = "build"
    /\ result = "none"
    /\ panicked = FALSE
    /\ handshakes = {}
    /\ spawned = {}
    /\ shut = {}
    /\ next_conn = 0
    /\ open_log = <<>>
    /\ close_count = [i \in SessionIds |-> 0]
    /\ last = Last("new", 0, NoAddr, FALSE)
    /\ calls = <<>>
    /\ ginit = [p \in {proto.id : proto \in protocol_configs} |-> 0]
    /\ gopen = {}

Init == limits \in Scenarios /\ Start

InitHandles == limits \in HandleScenarios /\ Start

\* --------------------------------------------------------------- the builder
Listen(address) ==
    /\ pc = "build"
    /\ Len(listens) < limits.listens
    /\ listens' = Append(listens, address)
    /\ used' = [used EXCEPT !.listens = @ + 1]
    /\ UNCHANGED <<config, sessions, dial, task_count, next_session, remote_pubkeys,
                   proto_handles, proto_session_handles, session_events, service_tasks,
                   ctx_listens, pc, result, panicked, handshakes, spawned, shut,
                   next_conn, open_log, close_count, last, calls, ginit, gopen>>

InFlight(s, address) == \E i \in 1..Len(s.dial) : s.dial[i] = address

\* a builder that drops a dial to an address that is in flight
builder_dial_dedup(s, address) ==
    IF InFlight(s, address)
    THEN s
    ELSE [s EXCEPT !.dial = Append(@, address), !.task_count = @ + 1]

\* Service::dial, the builder
builder_dial(s, address) ==
    [s EXCEPT !.dial = Append(@, address), !.task_count = @ + 1]

BuilderDial(address) ==
    /\ pc = "build"
    /\ Len(dial) < limits.dials
    /\ Install(builder_dial(Cur(FALSE), address))
    /\ last' = Last("dial", 0, address, InFlight(Cur(FALSE), address))
    /\ UNCHANGED <<config, used, session_events, service_tasks, pc, result>>

\* the service is handed to the executor
Run ==
    /\ pc = "build"
    /\ pc' = "idle"
    /\ last' = Last("run", 0, NoAddr, FALSE)
    /\ UNCHANGED <<config, used, svars, session_events, service_tasks, result, calls>>

\* ---------------------------------------------------------------- the poll
Readies(outs) == Cardinality({i \in 1..Len(outs) : outs[i] = "Ready"})

ListenOutcomes ==
    {[kind |-> "Some", peer |-> a] : a \in Peers}
        \cup {[kind |-> k, peer |-> NoAddr] : k \in {"None", "NotReady", "Err"}}

Accepts(outs) == Cardinality({i \in 1..Len(outs) : outs[i].kind = "Some"})

\* poll is called and the first check holds: Ready(None)
PollComplete ==
    /\ pc = "idle"
    /\ Terminated(Cur(FALSE))
    /\ pc' = "done"
    /\ result' = "complete"
    /\ calls' = <<>>
    /\ UNCHANGED <<config, used, svars, session_events, service_tasks, last>>

\* poll is called and goes on: client_poll, then listen_poll
PollStart ==
    /\ pc = "idle"
    /\ ~ Terminated(Cur(FALSE))
    /\ \E overflow_checks \in BOOLEAN,
          douts \in [1..Len(dial) -> {"Ready", "NotReady", "Err"}],
          louts \in [1..Len(listens) -> ListenOutcomes] :
          /\ next_conn + Readies(douts) + Accepts(louts) <= limits.conns
          /\ LET s1 == client_poll(Cur(overflow_checks), douts)
                 s == IF s1.panicked THEN s1 ELSE listen_poll(s1, louts)
             IN  /\ Install(s)
                 /\ pc' = IF s.panicked THEN "panicked" ELSE "events"
    /\ UNCHANGED <<config, used, session_events, service_tasks, result, last>>

handle_session_event(s, event) ==
    CASE event.type = "SessionClose" -> session_close(s, event.id)
      [] event.type = "HandshakeSuccess" ->
            LET s1 == session_open(s, event.conn, event.public_key, event.address, event.ty)
            IN  IF event.ty = "Client" THEN dec_task_count(s1) ELSE s1
      [] event.type = "HandshakeFail" ->
            IF event.ty = "Client" THEN dec_task_count(s) ELSE s
      [] event.type = "ProtocolMessage" -> protocol_message(s, event.id, event.proto_id)
      [] event.type = "ProtocolOpen" -> protocol_open(s, event.id, event.proto_id)
      [] event.type = "ProtocolClose" -> protocol_close(s, event.id, event.proto_id)
      [] OTHER -> s

\* TRUE iff id has an entry in the registry, the key map and the handle map
Entries(id) ==
    /\ id \in DOMAIN sessions
    /\ id \in DOMAIN remote_pubkeys
    /\ id \in DOMAIN proto_session_handles

\* what `last` keeps of a session event: for a close, whether the id had its
\* entries; for a handshake success, whether the key was already recorded
EventNote(event) ==
    CASE event.type = "SessionClose" ->
            Last("SessionClose", event.id, NoAddr, Entries(event.id))
      [] event.type = "HandshakeSuccess" ->
            Last("HandshakeSuccess", 0, NoAddr,
                 event.public_key \in Range(remote_pubkeys))
      [] OTHER -> last

\* try_send: the message is dropped when the channel is full
try_send_unbounded(channel, message) == Append(channel, message)

try_send(channel, message) ==
    IF Len(channel) < limits.capacity
    THEN Append(channel, message)
    ELSE channel

\* the id lists of a ProtocolMessage task: None, or a Vec of up to two ids
IdLists ==
    {NoIds, <<>>} \cup {<<i>> : i \in TaskIds}
        \cup {<<i, j>> : i \in TaskIds, j \in TaskIds}

Tasks ==
    {Task("Dial", 0, 0, a, NoIds) : a \in Addrs}
        \cup {Task("Disconnect", i, 0, NoAddr, NoIds) : i \in TaskIds}
        \cup {Task("ProtocolMessage", 0, proto.id, NoAddr, ids) :
                 proto \in protocol_configs, ids \in IdLists}

\* tasks submitted so far
Submitted == used.dial_tasks + used.disconnects + used.message_tasks

\* a call of ServiceContext::send with the task: try_send on the task channel
Submit(task) ==
    /\ CASE task.type = "Dial" ->
               /\ used.dial_tasks < limits.dial_tasks
               /\ used' = [used EXCEPT !.dial_tasks = @ + 1]
         [] task.type = "Disconnect" ->
               /\ used.disconnects < limits.disconnects
               /\ used' = [used EXCEPT !.disconnects = @ + 1]
         [] OTHER ->
               /\ used.message_tasks < limits.message_tasks
               /\ used' = [used EXCEPT !.message_tasks = @ + 1]
    /\ service_tasks' = try_send(service_tasks,
                                 [task EXCEPT !.seq = Submitted + 1, !.phase = pc])

\* TRUE iff the step called a handle of the user; a handle is called with
\* the ServiceContext and may call send before it returns
CalledHandle(seq) ==
    \E i \in 1..Len(seq) : seq[i].who \in {"service", "global", "session"}

HandleSessionEvent ==
    /\ pc = "events"
    /\ session_events # <<>>
    /\ \E overflow_checks \in BOOLEAN, proto_walk \in Walks(ProtocolIds) :
          LET event == Head(session_events)
              s == handle_session_event(
                       [Cur(overflow_checks) EXCEPT !.proto_walk = proto_walk], event)
          IN  /\ Install(s)
              /\ pc' = IF s.panicked THEN "panicked" ELSE "events"
              /\ last' = EventNote(event)
              /\ \/ UNCHANGED <<used, service_tasks>>
                 \/ /\ limits.callbacks
                    /\ CalledHandle(s.calls)
                    /\ \E task \in Tasks : Submit(task)
    /\ session_events' = Tail(session_events)
    /\ UNCHANGED <<config, result>>

\* a drain of the session events that breaks while events are pending
SessionEventsBreak ==
    /\ pc = "events"
    /\ pc' = "tasks"
    /\ calls' = <<>>
    /\ UNCHANGED <<config, used, svars, session_events, service_tasks, result, last>>

\* the session event channel is NotReady
SessionEventsNotReady ==
    /\ pc = "events"
    /\ session_events = <<>>
    /\ pc' = "tasks"
    /\ calls' = <<>>
    /\ UNCHANGED <<config, used, svars, session_events, service_tasks, result, last>>

\* a Dial task that queues the connect without the look at the dial list
dial_task_unchecked(s, address) == [s EXCEPT !.dial = Append(@, address)]

\* ServiceTask::Dial
dial_task(s, address) ==
    IF ~ InFlight(s, address)
    THEN [s EXCEPT !.dial = Append(@, address)]
    ELSE s

handle_service_task(s, task) ==
    CASE task.type = "ProtocolMessage" -> filter_broadcast(s, task.ids, task.proto_id)
      [] task.type = "Dial" -> dial_task(s, task.address)
      [] task.type = "Disconnect" -> session_close(s, task.id)
      [] OTHER -> s

\* what `last` keeps of a service task: for a Dial, whether a dial to the
\* address was in flight; for a Disconnect, whether the id had its entries
TaskNote(task) ==
    CASE task.type = "Dial" ->
            [Last("Dial", 0, task.address, InFlight(Cur(FALSE), task.address))
                EXCEPT !.phase = task.phase]
      [] task.type = "Disconnect" ->
            [Last("Disconnect", task.id, NoAddr, Entries(task.id))
                EXCEPT !.phase = task.phase]
      [] OTHER -> last

HandleServiceTask ==
    /\ pc = "tasks"
    /\ service_tasks # <<>>
    /\ \E proto_walk \in Walks(ProtocolIds), session_walk \in Walks(SessionIds) :
          LET task == Head(service_tasks)
              s == [Cur(FALSE) EXCEPT !.proto_walk = proto_walk,
                                      !.session_walk = session_walk]
          IN  /\ Install(handle_service_task(s, task))
              /\ last' = TaskNote(task)
    /\ service_tasks' = Tail(service_tasks)
    /\ UNCHANGED <<config, used, session_events, pc, result>>

\* the service task channel is NotReady: the second check and the return
PollReturn ==
    /\ pc = "tasks"
    /\ service_tasks = <<>>
    /\ IF Terminated(Cur(FALSE))
       THEN pc' = "done" /\ result' = "complete"
       ELSE pc' = "idle" /\ result' = "not_ready"
    /\ calls' = <<>>
    /\ UNCHANGED <<config, used, svars, session_events, service_tasks, last>>

\* ---------------------------------------------------------- the environment
\* The other threads (handshake tasks, Sessions, users of the task sender)
\* are taken to send between two polls: the channels are FIFO and a poll
\* drains them to the end, so a message that arrives during a poll is handled
\* by it as if sent before it, or by the next one as if sent after it.
Running == pc = "idle"

\* a spawned handshake task resolves and posts its result; NoKey: it failed
HandshakeResolves(h, key) ==
    /\ Running
    /\ h \in handshakes
    /\ Len(session_events) < limits.capacity
    /\ handshakes' = handshakes \ {h}
    /\ session_events' = Append(session_events,
          IF key = NoKey
          THEN Event("HandshakeFail", 0, 0, h.conn, NoKey, NoAddr, h.ty)
          ELSE Event("HandshakeSuccess", 0, 0, h.conn, key, h.address, h.ty))
    /\ UNCHANGED <<config, used, sessions, listens, dial, task_count, next_session,
                   remote_pubkeys, proto_handles, proto_session_handles, service_tasks,
                   ctx_listens, pc, result, panicked, spawned, shut, next_conn,
                   open_log, close_count, last, calls, ginit, gopen>>

\* a Session reports on a protocol stream: that it opened or closed it, or a
\* message it read from it
SessionProtocol(x, proto_id, message) ==
    /\ Running
    /\ x \in spawned
    /\ Len(session_events) < limits.capacity
    /\ IF message
       THEN /\ proto_id \in x.protos
            /\ used.messages < limits.messages
            /\ used' = [used EXCEPT !.messages = @ + 1]
            /\ session_events' = Append(session_events,
                   Event("ProtocolMessage", x.id, proto_id, x.conn, NoKey, NoAddr, x.ty))
            /\ UNCHANGED spawned
       ELSE /\ used.protocols < limits.protocols
            /\ used' = [used EXCEPT !.protocols = @ + 1]
            /\ IF proto_id \in x.protos
               THEN /\ session_events' = Append(session_events,
                           Event("ProtocolClose", x.id, proto_id, x.conn, NoKey, NoAddr, x.ty))
                    /\ spawned' = (spawned \ {x})
                                      \cup {[x EXCEPT !.protos = @ \ {proto_id}]}
               ELSE /\ session_events' = Append(session_events,
                           Event("ProtocolOpen", x.id, proto_id, x.conn, NoKey, NoAddr, x.ty))
                    /\ spawned' = (spawned \ {x})
                                      \cup {[x EXCEPT !.protos = @ \cup {proto_id}]}
    /\ UNCHANGED <<config, sessions, listens, dial, task_count, next_session,
                   remote_pubkeys, proto_handles, proto_session_handles, service_tasks,
                   ctx_listens, pc, result, panicked, handshakes, shut, next_conn,
                   open_log, close_count, last, calls, ginit, gopen>>

\* a Session loses its connection: it reports SessionClose and exits
SessionLost(x) ==
    /\ Running
    /\ x \in spawned
    /\ Len(session_events) < limits.capacity
    /\ session_events' = Append(session_events,
          Event("SessionClose", x.id, 0, x.conn, NoKey, NoAddr, x.ty))
    /\ spawned' = spawned \ {x}
    /\ UNCHANGED <<config, used, sessions, listens, dial, task_count, next_session,
                   remote_pubkeys, proto_handles, proto_session_handles, service_tasks,
                   ctx_listens, pc, result, panicked, handshakes, shut, next_conn,
                   open_log, close_count, last, calls, ginit, gopen>>

\* a Session that was sent SessionClose winds itself down
SessionWindDown(x) ==
    /\ Running
    /\ x \in spawned
    /\ x.cmd_close
    /\ spawned' = spawned \ {x}
    /\ UNCHANGED <<config, used, sessions, listens, dial, task_count, next_session,
                   remote_pubkeys, proto_handles, proto_session_handles, session_events,
                   service_tasks, ctx_listens, pc, result, panicked, handshakes, shut,
                   next_conn, open_log, close_count, last, calls, ginit, gopen>>

\* ServiceContext::send, from another thread between two polls
Send(task) ==
    /\ Running
    /\ Submit(task)
    /\ UNCHANGED <<config, svars, session_events, pc, result, last, calls>>

Next ==
    \/ \E a \in ListenAddrs : Listen(a)
    \/ \E a \in Addrs : BuilderDial(a)
    \/ Run
    \/ PollComplete
    \/ PollStart
    \/ HandleSessionEvent
    \/ SessionEventsNotReady
    \/ HandleServiceTask
    \/ PollReturn
    \/ \E h \in handshakes, k \in Keys \cup {NoKey} : HandshakeResolves(h, k)
    \/ \E x \in spawned, proto \in protocol_configs, message \in BOOLEAN :
          SessionProtocol(x, proto.id, message)
    \/ \E x \in spawned : SessionLost(x)
    \/ \E x \in spawned : SessionWindDown(x)
    \/ \E t \in Tasks : Send(t)

Spec == Init /\ [][Next]_vars

SpecHandles == InitHandles /\ [][Next]_vars

\* ------------------------------------------------------------ the claims
\* the steps of the loop, told by what they take from the channels
SessionEventStep(type) ==
    /\ pc = "events"
    /\ session_events # <<>>
    /\ Head(session_events).type = type
    /\ session_events' = Tail(session_events)

ServiceTaskStep(type) ==
    /\ pc = "tasks"
    /\ service_tasks # <<>>
    /\ Head(service_tasks).type = type
    /\ service_tasks' = Tail(service_tasks)

NothingLeft == listens = <<>> /\ task_count = 0 /\ DOMAIN sessions = {}

Forever == IF forever THEN 1 ELSE 0

Occurrences(seq, x) == Cardinality({i \in 1..Len(seq) : seq[i] = x})

\* C1: a call of poll that returns returns "complete" exactly when there is
\* no listener, task_count is 0 and no session is registered, at its first
\* check or at its second; otherwise it goes on and returns "not ready".
C1_PollCompleteIffNothingLeft ==
    [][/\ (pc = "idle" /\ pc' # pc) => (pc' = "done" <=> NothingLeft)
       /\ (pc = "tasks" /\ pc' # pc) =>
             /\ pc' = "done" <=> NothingLeft'
             /\ pc' = "idle" <=> ~ NothingLeft'
             /\ result' = IF NothingLeft' THEN "complete" ELSE "not_ready"
       /\ result' = "complete" <=> pc' = "done"]_vars

\* poll returned "complete" after a session was opened and closed again
C1_Witness == pc = "done" /\ result = "complete" /\ Len(open_log) > 0

\* a HandshakeSuccess whose key a registered session already has
DuplicateKeyStep ==
    /\ SessionEventStep("HandshakeSuccess")
    /\ \E i \in DOMAIN sessions \cap DOMAIN remote_pubkeys :
          remote_pubkeys[i] = Head(session_events).public_key

\* C2: a HandshakeSuccess with the public key of a live session shuts the
\* new stream down and gives the service handle no SessionOpen.
C2_DuplicateKeyNoSessionOpen ==
    [][DuplicateKeyStep =>
          /\ Head(session_events).conn \in shut'
          /\ open_log' = open_log]_vars

\* C3: session_open with the key of a live session changes no Service state:
\* not the id counter, the key map or the registry, and it spawns no Session.
C3_DuplicateKeyNoChange ==
    [][DuplicateKeyStep =>
          /\ next_session' = next_session
          /\ remote_pubkeys' = remote_pubkeys
          /\ sessions' = sessions
          /\ spawned' = spawned]_vars

\* C4: the ids of the SessionOpen events are non-zero and strictly increasing.
C4_SessionIdsIncrease ==
    /\ \A i \in 1..Len(open_log) : open_log[i].id > 0
    /\ \A i, j \in 1..Len(open_log) : i < j => open_log[i].id < open_log[j].id

Opens(id) == Cardinality({i \in 1..Len(open_log) : open_log[i].id = id})

\* C5: for every id the service handle gets at most one SessionOpen and at
\* most one SessionClose, and a SessionClose only for an id it got a
\* SessionOpen for.
C5_OneOpenThenOneClose ==
    \A id \in SessionIds :
        /\ Opens(id) <= 1
        /\ close_count[id] <= 1
        /\ close_count[id] > 0 => Opens(id) > 0

CloseStep(id) ==
    \/ SessionEventStep("SessionClose") /\ Head(session_events).id = id
    \/ ServiceTaskStep("Disconnect") /\ Head(service_tasks).id = id

\* C6: right after the loop handled the close of id, id has no entry in the
\* session registry, the public key map and the per-session handle map.
C6_CloseRemovesEntries ==
    [][\A id \in SessionIds :
          CloseStep(id) =>
             /\ id \notin DOMAIN sessions'
             /\ id \notin DOMAIN remote_pubkeys'
             /\ id \notin DOMAIN proto_session_handles']_vars

\* a close was handled for an id that had an entry in each of the three maps
C6_Witness == last.op \in {"SessionClose", "Disconnect"} /\ last.flag

DialIsInFlight(address) == \E i \in 1..Len(dial) : dial[i] = address

\* C7: a Dial task for an address with no dial in flight appends one connect
\* future for it and adds 1 to task_count.
C7_DialTaskCounts ==
    [][(ServiceTaskStep("Dial") /\ ~ DialIsInFlight(Head(service_tasks).address)) =>
          /\ dial' = Append(dial, Head(service_tasks).address)
          /\ task_count' = task_count + 1]_vars

\* outbound sockets whose handshake result the loop has not handled
OutboundUnresolved ==
    Cardinality({h \in handshakes : h.ty = "Client"})
        + Cardinality({i \in 1..Len(session_events) :
              /\ session_events[i].type \in {"HandshakeSuccess", "HandshakeFail"}
              /\ session_events[i].ty = "Client"})

\* C8: task_count is 1 for forever, plus the dials in flight, plus the
\* outbound connections whose handshake result is not handled yet.
C8_TaskCountBalance ==
    ~ panicked => task_count = Forever + Len(dial) + OutboundUnresolved

\* C9: a Dial task for an address that has a dial in flight changes neither
\* the dial list nor task_count.
C9_DialTaskInFlightNoOp ==
    [][(ServiceTaskStep("Dial") /\ DialIsInFlight(Head(service_tasks).address)) =>
          /\ dial' = dial
          /\ task_count' = task_count]_vars

\* a Dial task was handled while a dial to its address was in flight
C9_Witness == last.op = "Dial" /\ last.flag

\* C10 as stated: the builder drops a dial to an address that has a dial in
\* flight, so the list keeps one entry for the address.
C10_BuilderDialIdempotent ==
    (pc = "build" /\ last.op = "dial" /\ last.flag) =>
        Occurrences(dial, last.address) = 1

\* C10 as amended: every call of the builder appends a connect future and
\* adds 1 to task_count, also for an address that has a dial in flight.
C10_BuilderDialAlwaysQueues ==
    pc = "build" =>
        /\ task_count = Forever + Len(dial)
        /\ (last.op = "dial" /\ last.flag) => Occurrences(dial, last.address) >= 2
        /\ (last.op = "dial" /\ ~ last.flag) => Occurrences(dial, last.address) = 1

\* the builder was called for an address that had a dial in flight
C10_Witness == pc = "build" /\ last.op = "dial" /\ last.flag

\* C11: a Service built with forever = TRUE never completes: task_count
\* stays at least 1 and no call of poll returns "complete".
C11_ForeverNeverCompletes ==
    forever => (task_count >= 1 /\ result # "complete")

GlobalCalls(seq, fn, proto_id) ==
    {i \in 1..Len(seq) :
        seq[i].who = "global" /\ seq[i].fn = fn /\ seq[i].proto_id = proto_id}

\* C12: the global handle of a protocol gets init() at most once: it is
\* built on the first ProtocolOpen of the protocol, init() comes before its
\* first connected(), and an installed handle is never removed or built again.
C12_GlobalInitOnce ==
    [][\A p \in ProtocolIds :
          /\ ginit'[p] <= 1
          /\ p \in proto_handles => p \in proto_handles'
          /\ GlobalCalls(calls', "init", p) # {} =>
                /\ SessionEventStep("ProtocolOpen")
                /\ Head(session_events).proto_id = p
                /\ p \notin proto_handles
                /\ p \in proto_handles'
                /\ Cardinality(GlobalCalls(calls', "init", p)) = 1
                /\ \A i \in GlobalCalls(calls', "init", p),
                      j \in GlobalCalls(calls', "connected", p) : i < j
          /\ GlobalCalls(calls', "connected", p) # {} =>
                /\ ginit'[p] = 1
                /\ p \in proto_handles'
          /\ (/\ SessionEventStep("ProtocolOpen")
              /\ Head(session_events).proto_id = p
              /\ get_proto_handle(FALSE, p)) =>
                /\ GlobalCalls(calls', "connected", p) # {}
                /\ GlobalCalls(calls', "init", p) # {} <=> p \notin proto_handles]_vars

\* a ProtocolOpen was handled for a protocol whose global handle was installed
\* by an earlier open
C12_Witness ==
    /\ \E p \in ProtocolIds :
          /\ ginit[p] = 1
          /\ GlobalCalls(calls, "connected", p) # {}
          /\ GlobalCalls(calls, "init", p) = {}
    /\ \E i \in SessionIds : close_count[i] > 0

HandleCalls(seq, who, fn, id, proto_id) ==
    {i \in 1..Len(seq) :
        /\ seq[i].who = who
        /\ seq[i].fn = fn
        /\ seq[i].id = id
        /\ seq[i].proto_id = proto_id}

\* C13: the global handle of a protocol is told disconnected(id) only for a
\* session it was told connected(id) for and not disconnected since, and once
\* for it: by the ProtocolClose or by the close of the session, never by both.
C13_GlobalDisconnectedOncePerOpen ==
    [][\A p \in ProtocolIds, id \in SessionIds :
          LET told == HandleCalls(calls', "global", "disconnected", id, p)
          IN  /\ Cardinality(told) <= 1
              /\ told # {} => <<id, p>> \in gopen]_vars

\* TRUE iff the handle map m holds a per-session handle at (id, proto_id)
Instance(m, id, proto_id) ==
    /\ id \in DOMAIN m
    /\ proto_id \in DOMAIN m[id]
    /\ m[id][proto_id]

\* C14: a per-session handle gets init and connected when it is built, then
\* received, then one disconnected as it leaves the map: none is dropped or
\* replaced without disconnected, none is called after it, and none is left
\* when the service completes.
C14_SessionHandleLifecycle ==
    [][\A p \in ProtocolIds, id \in SessionIds :
          LET built == HandleCalls(calls', "session", "init", id, p)
              joined == HandleCalls(calls', "session", "connected", id, p)
              got == HandleCalls(calls', "session", "received", id, p)
              left == HandleCalls(calls', "session", "disconnected", id, p)
              replaced == /\ SessionEventStep("ProtocolOpen")
                          /\ Head(session_events).id = id
                          /\ Head(session_events).proto_id = p
          IN  /\ built # {} =>
                    /\ Cardinality(built) = 1 /\ Cardinality(joined) = 1
                    /\ \A i \in built, j \in joined : j = i + 1
                    /\ Instance(proto_session_handles', id, p)
              /\ joined # {} => built # {}
              /\ (got # {} \/ left # {}) => Instance(proto_session_handles, id, p)
              /\ left # {} => Cardinality(left) = 1
              /\ (/\ Instance(proto_session_handles, id, p)
                  /\ (replaced \/ ~ Instance(proto_session_handles', id, p)))
                    => left # {}
              /\ pc' = "done" => ~ Instance(proto_session_handles', id, p)]_vars

\* the session id was opened and the loop has handled its close
Closed(id) == Opens(id) > 0 /\ close_count[id] > 0 /\ id \notin DOMAIN sessions

\* C15: once the loop has handled the close of a session, it calls no
\* protocol handle, global or per-session, for that session id again.
C15_NoCallbackAfterClose ==
    [][\A id \in SessionIds :
          Closed(id) =>
             \A i \in 1..Len(calls') :
                 calls'[i].who \in {"global", "session"} => calls'[i].id # id]_vars

\* C16: a SessionOpen given to the service handle carries the id and the
\* direction of the Session that was built (Client for a dial, Server for a
\* listener) and, after a handshake, the address and the key of its result.
C16_SessionOpenCarriesDirection ==
    [][\A i \in 1..Len(calls') :
          (calls'[i].who = "service" /\ calls'[i].fn = "SessionOpen") =>
             /\ \E x \in spawned' \ spawned :
                   x.id = calls'[i].id /\ x.ty = calls'[i].ty
             /\ SessionEventStep("HandshakeSuccess") =>
                   /\ calls'[i].address = Head(session_events).address
                   /\ calls'[i].public_key = Head(session_events).public_key]_vars

\* the send attempts of a ProtocolMessage on the command channel of session id
Sends(seq, id, proto_id) == HandleCalls(seq, "sender", "ProtocolMessage", id, proto_id)

\* C17: a ProtocolMessage task makes one send attempt for every registered
\* session (ids = None), or for every registered session whose id is in the
\* list, however often the list names it, and none for any other id; it
\* makes no other call and changes no state of the Service.
C17_ProtocolMessageTaskSends ==
    [][ServiceTaskStep("ProtocolMessage") =>
          LET task == Head(service_tasks)
              Target(id) == /\ id \in DOMAIN sessions
                            /\ task.ids = NoIds \/ Contains(task.ids, id)
          IN  /\ \A id \in SessionIds :
                    Cardinality(Sends(calls', id, task.proto_id)) =
                        IF Target(id) THEN 1 ELSE 0
              /\ Len(calls') = Cardinality({id \in SessionIds : Target(id)})
              /\ svars' = svars]_vars

\* a ProtocolMessage task was handled with two sessions registered, and its
\* id list chose one of them
C17_Witness ==
    /\ pc = "tasks"
    /\ Cardinality(DOMAIN sessions) = 2
    /\ Len(calls) = 1
    /\ calls[1].who = "sender" /\ calls[1].fn = "ProtocolMessage"

\* a handle submits a task: the only step that counts a submission
SubmitStep == Submitted' = Submitted + 1

\* C18: the task channel never holds more than its capacity; a task
\* submitted while it is full is dropped: the channel, the Service and what
\* the handles were called with stay as they are; an accepted task goes to the
\* end of the channel, and the loop dispatches the tasks in the order in which
\* they were submitted.
C18_TasksBoundedDroppedInOrder ==
    [][/\ Len(service_tasks') <= limits.capacity
       /\ \A i, j \in 1..Len(service_tasks') :
             i < j => service_tasks'[i].seq < service_tasks'[j].seq
       /\ SubmitStep =>
             /\ svars' = svars /\ calls' = calls /\ pc' = pc /\ result' = result
             /\ session_events' = session_events
             /\ IF Len(service_tasks) = limits.capacity
                THEN service_tasks' = service_tasks
                ELSE /\ Len(service_tasks') = Len(service_tasks) + 1
                     /\ SubSeq(service_tasks', 1, Len(service_tasks)) = service_tasks
                     /\ service_tasks'[Len(service_tasks')].seq = Submitted'
       /\ (pc = "tasks" /\ service_tasks' # service_tasks) =>
             /\ service_tasks' = Tail(service_tasks)
             /\ \A i \in 1..Len(service_tasks') :
                   Head(service_tasks).seq < service_tasks'[i].seq]_vars

\* the channel is full with two or more tasks in it, and a task that was
\* submitted after them is not in it
C18_Witness ==
    /\ pc = "idle"
    /\ Len(service_tasks) = limits.capacity
    /\ Len(service_tasks) >= 2
    /\ service_tasks[Len(service_tasks)].seq < Submitted

\* C19: for a ProtocolMessage event of (id, proto) the loop calls received
\* on the global handle of proto, if installed, and then on the per-session
\* handle at (id, proto), if there is one: each once, in this order, and on no
\* other handle.
C19_ReceivedGlobalThenSession ==
    [][SessionEventStep("ProtocolMessage") =>
          LET event == Head(session_events)
              global == HandleCalls(calls', "global", "received", event.id, event.proto_id)
              own == HandleCalls(calls', "session", "received", event.id, event.proto_id)
          IN  /\ Cardinality(global) = IF event.proto_id \in proto_handles THEN 1 ELSE 0
              /\ Cardinality(own) =
                    IF Instance(proto_session_handles, event.id, event.proto_id)
                    THEN 1 ELSE 0
              /\ \A i \in global, j \in own : i < j
              /\ Len(calls') = Cardinality(global) + Cardinality(own)
              /\ svars' = svars]_vars

\* a message of one session was given to the global handle and then to that
\* session's handle, while another session had a handle of its own
C19_Witness ==
    /\ pc = "events"
    /\ Len(calls) = 2
    /\ calls[1].who = "global" /\ calls[1].fn = "received"
    /\ calls[2].who = "session" /\ calls[2].fn = "received"
    /\ calls[1].id = calls[2].id
    /\ \E id \in SessionIds, p \in ProtocolIds :
          id # calls[2].id /\ Instance(proto_session_handles, id, p)

\* the service runs with forever = FALSE and was given no listener, and all outbound
\* activity has ended: no dial is in flight, no handshake is running, no
\* session is registered and both channels are empty
OutboundEnded ==
    /\ ~ forever
    /\ pc # "build"
    /\ used.listens = 0
    /\ dial = <<>>
    /\ handshakes = {}
    /\ DOMAIN sessions = {}
    /\ session_events = <<>>
    /\ service_tasks = <<>>

\* C20: with forever = FALSE and no listener, once every dial has resolved
\* and every session is closed the loop is alive with task_count = 0, so that
\* the poll returns "complete".
C20_CompletesWhenOutboundEnded ==
    OutboundEnded => (~ panicked /\ task_count = 0)

\* C21: a public key is recorded in the key map iff exactly one registered
\* session has it: no key is recorded under two ids, every recorded id is
\* registered, and every registered session that was opened with a key has
\* that key recorded under its own id.
C21_KeyMapMatchesRegistry ==
    /\ \A i, j \in DOMAIN remote_pubkeys :
          remote_pubkeys[i] = remote_pubkeys[j] => i = j
    /\ DOMAIN remote_pubkeys \subseteq DOMAIN sessions
    /\ \A id \in DOMAIN sessions :
          sessions[id].public_key # NoKey =>
              /\ id \in DOMAIN remote_pubkeys
              /\ remote_pubkeys[id] = sessions[id].public_key
    /\ \A k \in Keys :
          k \in Range(remote_pubkeys) <=>
              Cardinality({id \in DOMAIN sessions : sessions[id].public_key = k}) = 1

\* the loop runs session_close: it handles a SessionClose event or a
\* Disconnect task
SessionCloseStep == SessionEventStep("SessionClose") \/ ServiceTaskStep("Disconnect")

\* C22: the close of session sid calls, in this order: the service handle
\* with SessionClose{sid}; disconnected(sid) of every per-session handle
\* under sid; disconnected(sid), once, of the global handle of exactly the
\* protocols that have an entry under sid (with or without a per-session
\* handle) and a global handle. A protocol whose entry a ProtocolClose took
\* away gets no global disconnected.
C22_SessionCloseCallOrder ==
    [][SessionCloseStep =>
          LET sid == IF pc = "events" THEN Head(session_events).id
                     ELSE Head(service_tasks).id
              entry(p) == /\ sid \in DOMAIN proto_session_handles
                          /\ p \in DOMAIN proto_session_handles[sid]
              told == SelectSeq(calls', LAMBDA c : c.who # "sender")
              own(p) == HandleCalls(told, "session", "disconnected", sid, p)
              global(p) == HandleCalls(told, "global", "disconnected", sid, p)
          IN  /\ Len(told) >= 1
              /\ told[1] = Call("service", "SessionClose", sid, 0)
              /\ \A i \in 2..Len(told) :
                    /\ told[i].who \in {"session", "global"}
                    /\ told[i].fn = "disconnected"
                    /\ told[i].id = sid
                    /\ told[i].proto_id \in ProtocolIds
              /\ \A i, j \in 2..Len(told) :
                    (told[i].who = "session" /\ told[j].who = "global") => i < j
              /\ \A p \in ProtocolIds :
                    /\ Cardinality(own(p)) =
                          IF Instance(proto_session_handles, sid, p) THEN 1 ELSE 0
                    /\ Cardinality(global(p)) =
                          IF entry(p) /\ p \in proto_handles THEN 1 ELSE 0]_vars

\* a session with an entry for both protocols, one of them without a
\* per-session handle, was closed
C22_Witness ==
    /\ Len(calls) = 5
    /\ calls[2] = Call("service", "SessionClose", calls[2].id, 0)
    /\ calls[3].who = "session" /\ calls[3].fn = "disconnected"
    /\ calls[4].who = "global" /\ calls[4].fn = "disconnected"
    /\ calls[5].who = "global" /\ calls[5].fn = "disconnected"
    /\ calls[4].proto_id # calls[5].proto_id

\* C23: a poll polls the dials, then the listeners, then drains the session
\* events until none is left, then drains the service tasks until none is
\* left, then makes its final check. A task that a handle submits from a
\* callback of the session-events drain is not applied during the callback
\* (it dials nothing and closes nothing); it is applied in the task drain of
\* the same poll, after the session events.
C23_DispatchOrder ==
    [][/\ pc = "idle" => pc' \in {"idle", "events", "done", "panicked"}
       /\ pc = "events" => pc' \in {"events", "tasks", "panicked"}
       /\ pc = "tasks" => pc' \in {"tasks", "idle", "done"}
       /\ (pc = "idle" /\ pc' = "events") =>
             \A i, j \in 1..Len(calls') :
                 (calls'[i].address \in Addrs /\ calls'[j].address \notin Addrs) => i < j
       /\ Len(session_events') < Len(session_events) =>
             pc = "events" /\ session_events' = Tail(session_events)
       /\ Len(service_tasks') < Len(service_tasks) =>
             pc = "tasks" /\ service_tasks' = Tail(service_tasks)
       /\ (pc = "events" /\ pc' = "tasks") =>
             session_events = <<>> /\ svars' = svars
       /\ (pc = "tasks" /\ pc' \in {"idle", "done"}) =>
             service_tasks = <<>> /\ svars' = svars
       /\ (SubmitStep /\ pc = "events") =>
             /\ session_events' = Tail(session_events)
             /\ CalledHandle(calls')
             /\ \/ service_tasks' = service_tasks
                \/ /\ Len(service_tasks') = Len(service_tasks) + 1
                   /\ SubSeq(service_tasks', 1, Len(service_tasks)) = service_tasks
                   /\ service_tasks'[Len(service_tasks')].phase = "events"
             /\ dial' = dial
             /\ \A id \in SessionIds :
                   close_count'[id] = close_count[id] +
                       IF /\ Head(session_events).type = "SessionClose"
                          /\ Head(session_events).id = id
                       THEN 1 ELSE 0
       /\ \A i \in 1..Len(service_tasks') :
             service_tasks'[i].phase = "events" => pc' \in {"events", "tasks", "panicked"}
       /\ (pc = "tasks" /\ service_tasks # <<>> /\ Head(service_tasks).phase = "events") =>
             session_events = <<>>]_vars

\* the task drain has applied a task that a handle submitted from a callback
\* of the session-events drain
C23_Witness ==
    /\ pc = "tasks"
    /\ last.phase = "events"
    /\ last.op \in {"Dial", "Disconnect"}

\* the elements of ls at the positions where outs has a kind of kinds
RECURSIVE Pick(_, _, _)
Pick(ls, outs, kinds) ==
    IF ls = <<>>
    THEN <<>>
    ELSE (IF Head(outs) \in kinds THEN <<Head(ls)>> ELSE <<>>)
             \o Pick(Tail(ls), Tail(outs), kinds)

\* the addresses given to handle_error with a ListenError, in call order
ListenErrors(seq) ==
    LET errs == SelectSeq(seq, LAMBDA c : c.who = "error" /\ c.fn = "ListenError")
    IN  [i \in 1..Len(errs) |-> errs[i].address]

\* the sockets accepted by a step: each starts a handshake as Server, or,
\* without a key pair, opens a session at once
Accepted ==
    Cardinality({h \in handshakes' \ handshakes : h.ty = "Server"})
        + Cardinality({i \in 1..Len(calls') :
                          calls'[i].fn = "SessionOpen" /\ calls'[i].address \in Peers})

\* C24: a poll of the listeners drops a listener only when its stream has
\* ended (Ready(None)); an error keeps it and gives one ListenError to
\* handle_error; an accepted socket and NotReady keep it; after the poll the
\* listen addresses of the ServiceContext are those of the listeners left.
C24_ListenersKeptUnlessEnded ==
    [][(pc = "idle" /\ pc' = "events") =>
          \E outs \in [1..Len(listens) -> {"Some", "None", "NotReady", "Err"}] :
              /\ listens' = Pick(listens, outs, {"Some", "NotReady", "Err"})
              /\ ListenErrors(calls') = Pick(listens, outs, {"Err"})
              /\ Len(Pick(listens, outs, {"Some"})) = Accepted
              /\ ctx_listens' = listens']_vars

\* a listener failed: it is still in the list and the error was reported
C24_Witness ==
    /\ pc = "events"
    /\ ListenErrors(calls) = <<"l1">>
    /\ listens = <<"l1">>
    /\ ctx_listens = <<"l1">>

\* C25: task_count is never decremented when it is 0: the subtraction
\* never panics and the counter never wraps to the maximum usize.
C25_TaskCountNoUnderflow == ~ panicked /\ task_count # UsizeMax

\* C26: every session id keyed in the per-session handle map is registered:
\* a ProtocolOpen for an id that is not registered makes no entry, so no
\* entry outlives its session or is left when the service completes.
C26_HandleEntriesOfRegisteredSessions ==
    /\ DOMAIN proto_session_handles \subseteq DOMAIN sessions
    /\ pc = "done" => DOMAIN proto_session_handles = {}

====
